---- MODULE Spec2Model ----
(***************************************************************************)
(* Model of mexFunction in src/include/densecrf_mex.cpp: one call of the   *)
(* MEX entry point that solves a dense CRF with either mean-field (MF) or  *)
(* tree-reweighted message passing (TRWS).                                 *)
(*                                                                         *)
(* Costs are real numbers in the program (float / double).  The model      *)
(* keeps them as integers in units of 1/1000; the kernel exp(-x) is the    *)
(* table ExpNeg.  Sums are exact (no rounding).                            *)
(* The grid dimensions are positive (the code asserts M > 0 and N > 0) and *)
(* the unary table holds at least one label per variable.                  *)
(***************************************************************************)
EXTENDS Integers, Sequences, FiniteSets

\* ------------------------------------------------------------------------
\* Bounds of the model
\* ------------------------------------------------------------------------
\* Largest number of variables M*N of a grid.
MaxVars == 4
\* Largest number of labels of a well-formed unary table.
MaxLabels == 2
\* Largest iteration count passed in (the smallest is 0).
MaxIter == 1

\* ------------------------------------------------------------------------
\* Input sets
\* ------------------------------------------------------------------------
Solvers == {"MF", "TRWS", "mf", "XYZ", "Not set"}
IterationCounts == 0..MaxIter
\* min_pairwise_cost, in 1/1000.
Thresholds == {0, 300, 5000}
\* <<gaussian_weight, bilateral_weight>>
WeightPairs == {<<0, 0>>, <<1, 1>>, <<2, 0>>, <<-1, 0>>, <<1, -2>>}
GridShapes == {<<m, n>> \in (1..MaxVars) \X (1..MaxVars) : m * n <= MaxVars}
\* numel of the unary matrix for a grid of nv variables: the multiples of nv
\* and one size that nv need not divide.
UnarySizes(nv) == {nv * l : l \in 1..MaxLabels} \cup {nv + 1}
UnaryTables(uc) == {[k \in 1..uc |-> (((k * k + s * k) \div 2) % 4) - 1] : s \in {0, 1}}
Images(nv) == {[k \in 1..nv |-> (k * s) % 2] : s \in {0, 1}}

\* An output array or backend result not written yet; a written one is <<value>>.
NoValue == <<>>
\* Nothing delivered to the caller; a delivery is <<slots>>.
NoOutput == <<>>
\* No mexErrMsgTxt so far.
NoError == "none"

VARIABLES
  prhs,        \* the call's inputs: nrhs, image, unary, im_size and the params struct
  pc,          \* position in mexFunction
  i, j,        \* loop counters of the TRWS node and edge loops
  calls,       \* backend calls made so far, in order, with their arguments
  evaluated,   \* pairs <<a, b>> for which pairwiseCost was evaluated
  plhs,        \* TRUE once plhs[0..2] are bound to result, energy, bound
  result, energy, bound,   \* contents of the three output arrays
  solution,    \* labeling held by the backend after its solve
  altLabs,     \* labelings the MF backend returns for the same call under another min_pairwise_cost
  err,         \* message of mexErrMsgTxt, or NoError
  out          \* what the caller receives

vars == <<prhs, pc, i, j, calls, evaluated, plhs, result, energy, bound,
          solution, altLabs, err, out>>

\* ------------------------------------------------------------------------
\* Parsed inputs (lines 20-50)
\* ------------------------------------------------------------------------
nrhs == prhs.nrhs
solver == prhs.solver
iterations == prhs.iterations
debug == prhs.debug
min_pairwise_cost == prhs.min_pairwise_cost
M == prhs.im_size[1]
N == prhs.im_size[2]
numVariables == M * N
UC == Len(prhs.unary)
numberOfLabels == UC \div (M * N)

\* ------------------------------------------------------------------------
\* Cost model (meanfield.h)
\* ------------------------------------------------------------------------
\* 1000 * exp(-x), rounded, for the squared distances of the model's grids.
ExpNeg(x) ==
  CASE x = 0 -> 1000 [] x = 1 -> 368 [] x = 2 -> 135 [] x = 3 -> 50
    [] x = 4 -> 18 [] x = 5 -> 7 [] x = 6 -> 2 [] x = 7 -> 1 [] OTHER -> 0

\* Linear2sub: linear index -> (row, col), column-major.
linear2sub(k) == <<k % M, k \div M>>
\* LinearIndex: (row, col) -> linear index.
sub2linear(p) == p[1] + M * p[2]

\* UnaryCost: cost of label l at grid position p.
unaryCost(p, l) == prhs.unary[sub2linear(p) + numVariables * l + 1]

Sq(x) == x * x
\* PairwiseCost: weighted spatial kernel plus weighted spatial+appearance kernel
\* (all standard deviations 1, one channel).
pairwiseCost(p0, p1) ==
  LET d2 == Sq(p0[1] - p1[1]) + Sq(p0[2] - p1[2])
      dc == Sq(prhs.image[sub2linear(p0) + 1] - prhs.image[sub2linear(p1) + 1])
  IN  prhs.gaussian_weight * ExpNeg(d2) + prhs.bilateral_weight * ExpNeg(d2 + dc)

Min(S) == CHOOSE x \in S : \A y \in S : x <= y

\* lowestUnaryCost: the sum over the variables of the smallest unary cost.
lowestUnaryCost(u, m, n, l) ==
  LET RECURSIVE Sum(_)
      Sum(k) == IF k = 0 THEN 0
                ELSE Sum(k - 1) + Min({u[(k - 1) + m * n * s + 1] : s \in 0..(l - 1)})
  IN  Sum(m * n)

\* EnergyFunctor: unary costs of the labeling plus the pairwise cost of every
\* unordered pair of variables with different labels.
UnaryEnergy(lab) ==
  LET RECURSIVE Sum(_)
      Sum(k) == IF k = 0 THEN 0
                ELSE Sum(k - 1) + unaryCost(linear2sub(k - 1), lab[k - 1])
  IN  Sum(numVariables)

PairwiseEnergy(lab) ==
  LET RECURSIVE Sum(_, _)
      Sum(a, b) ==
        IF a >= numVariables THEN 0
        ELSE IF b >= numVariables THEN Sum(a + 1, a + 2)
        ELSE (IF lab[a] # lab[b] THEN pairwiseCost(linear2sub(a), linear2sub(b)) ELSE 0)
             + Sum(a, b + 1)
  IN  Sum(0, 1)

Energy(lab) == UnaryEnergy(lab) + PairwiseEnergy(lab)

\* All labelings of the grid with l labels.
Labelings(l) == [0..(numVariables - 1) -> 0..(l - 1)]
\* The labelings a backend solve may hand back.
BackendLabelings(l) ==
  {[k \in 0..(numVariables - 1) |-> (ab[1] * k + ab[2]) % l] :
     ab \in {<<0, 0>>, <<0, l - 1>>, <<1, 0>>}}

\* ------------------------------------------------------------------------
\* Decisions of mexFunction
\* ------------------------------------------------------------------------
\* line 20: the argument count check.
WrongArgCount(n) == n # 4

UnknownSolverIgnoringCase(s) == s \notin {"MF", "TRWS", "mf", "trws"}
\* line 62: solver.compare("MF") && solver.compare("TRWS").
UnknownSolver(s) == s # "MF" /\ s # "TRWS"

SelectsMFSwapped(s) == s = "TRWS"
\* line 93: !solver.compare("MF").
SelectsMF(s) == s = "MF"

\* line 138: !solver.compare("TRWS").
SelectsTRWS(s) == s = "TRWS"

IncludeEdgeStrict(pcost, t) == pcost > t
IncludeEdgeInverted(pcost, t) == pcost <= t
\* line 172: pcost >= min_pairwise_cost.
IncludeEdge(pcost, t) == pcost >= t

\* The three return slots as the call holds them.
ReturnSlots(bnd, res, en, bd) ==
  IF bnd THEN <<[labeling |-> res, energy |-> en, bound |-> bd]>> ELSE NoOutput

MexErrOutputKeepsSlots(slots) == slots
\* lines 7-9, 21, 63: mexErrMsgTxt ends the call; the caller receives no output,
\* whatever plhs holds.
MexErrOutput(slots) == NoOutput

\* mexErrMsgTxt(msg).
MexErr(msg) ==
  /\ pc' = "error"
  /\ err' = msg
  /\ out' = MexErrOutput(ReturnSlots(plhs', result', energy', bound'))

\* ------------------------------------------------------------------------
\* Arguments of the backend calls
\* ------------------------------------------------------------------------
Call(op, args) == [op |-> op, args |-> args]

DenseArgsPruned(t) ==
  <<Call("extendedDenseCRF2D", <<M, N, numberOfLabels>>),
    Call("setUnaryEnergy", <<SubSeq(prhs.unary, 1, numberOfLabels * numVariables)>>),
    Call("addPairwiseGaussian",
         <<IF IncludeEdge(prhs.gaussian_weight * 1000, t) THEN prhs.gaussian_weight ELSE 0>>),
    Call("addPairwiseBilateral",
         <<IF IncludeEdge(prhs.bilateral_weight * 1000, t) THEN prhs.bilateral_weight ELSE 0,
           prhs.image>>)>>
\* lines 96-119: the configuration of the dense CRF, for a call whose
\* min_pairwise_cost is t.
DenseArgs(t) ==
  <<Call("extendedDenseCRF2D", <<M, N, numberOfLabels>>),
    Call("setUnaryEnergy", <<SubSeq(prhs.unary, 1, numberOfLabels * numVariables)>>),
    Call("addPairwiseGaussian", <<prhs.gaussian_weight>>),
    Call("addPairwiseBilateral", <<prhs.bilateral_weight, prhs.image>>)>>

\* line 122: crf.map(iterations), and line 142: options.m_iterMax = iterations.
IterationBudget(it) == it

\* lines 144-145: options.m_printMinIter.
PrintMinIter == IF debug THEN "default" ELSE iterations + 2

\* line 130: lowestUnaryCost(unary_array, M, N, numberOfLabels).
MFBoundValue == lowestUnaryCost(prhs.unary, M, N, numberOfLabels)

\* lines 154-158: the node data D of variable k.
NodeData(k) == [s \in 0..(numberOfLabels - 1) |-> unaryCost(linear2sub(k), s)]

\* The edges handed to the TRWS backend so far, as <<a, b>> pairs in call order.
EdgeCalls == SelectSeq(calls, LAMBDA c : c.op = "AddEdge")
EdgeSet == {<<EdgeCalls[k].args[1], EdgeCalls[k].args[2]>> : k \in 1..Len(EdgeCalls)}

\* Backend model: the energy TRWS reports for a labeling of its graph.
SparseEnergy(lab) ==
  LET RECURSIVE Sum(_)
      Sum(k) == IF k = 0 THEN 0
                ELSE Sum(k - 1)
                     + (IF lab[EdgeCalls[k].args[1]] # lab[EdgeCalls[k].args[2]]
                        THEN EdgeCalls[k].args[3] ELSE 0)
  IN  UnaryEnergy(lab) + Sum(Len(EdgeCalls))

NextPairInnerOnly(a, b) == IF b + 1 < numVariables THEN <<a, b + 1>> ELSE <<>>
\* lines 165-166: the pair the edge loops visit after <<a, b>>, or <<>> at the end.
NextPair(a, b) ==
  IF b + 1 < numVariables THEN <<a, b + 1>>
  ELSE IF a + 2 < numVariables THEN <<a + 1, a + 2>>
  ELSE <<>>
\* lines 165-166: the first pair, i = 0 and j = i + 1.
FirstPair == IF 1 < numVariables THEN <<0, 1>> ELSE <<>>

\* Backend model: the dual lower bound TRWS reports, at most its energy.
TRWSLowerBound(lab) == SparseEnergy(lab) - (Len(EdgeCalls) % 2)

\* lines 165-175 as a function of the threshold: the edges added for
\* min_pairwise_cost = t, from pair <<a, b>> on.
RECURSIVE EdgesFrom(_, _)
EdgesFrom(pr, t) ==
  IF pr = <<>> THEN {}
  ELSE (IF IncludeEdge(pairwiseCost(linear2sub(pr[1]), linear2sub(pr[2])), t)
        THEN {pr} ELSE {})
       \cup EdgesFrom(NextPair(pr[1], pr[2]), t)
EdgesFor(t) == EdgesFrom(FirstPair, t)

\* ------------------------------------------------------------------------
\* Initial state: the call's arguments
\* ------------------------------------------------------------------------
CallInputs ==
  UNION {
    UNION {
      { [nrhs |-> 4, solver |-> s, iterations |-> it, debug |-> d,
         min_pairwise_cost |-> t, im_size |-> sh, unary |-> u, image |-> im,
         gaussian_weight |-> w[1], bilateral_weight |-> w[2]] :
          s \in Solvers, it \in IterationCounts, d \in BOOLEAN, t \in Thresholds,
          u \in UnaryTables(uc), im \in Images(sh[1] * sh[2]), w \in WeightPairs }
      : uc \in UnarySizes(sh[1] * sh[2]) }
    : sh \in GridShapes }
  \cup
  { [nrhs |-> 3, solver |-> "Not set", iterations |-> 20, debug |-> FALSE,
     min_pairwise_cost |-> 0, im_size |-> <<1, 1>>, unary |-> <<0>>, image |-> <<0>>,
     gaussian_weight |-> 0, bilateral_weight |-> 0] }

Init ==
  /\ prhs \in CallInputs
  /\ pc = "start"
  /\ i = 0
  /\ j = 0
  /\ calls = <<>>
  /\ evaluated = {}
  /\ plhs = FALSE
  /\ result = NoValue
  /\ energy = NoValue
  /\ bound = NoValue
  /\ solution = NoValue
  /\ altLabs = {}
  /\ err = NoError
  /\ out = NoOutput

\* ------------------------------------------------------------------------
\* Steps of mexFunction
\* ------------------------------------------------------------------------
\* lines 17-59: argument count check and parsing.
ParseArgs ==
  /\ pc = "start"
  /\ UNCHANGED <<prhs, i, j, calls, evaluated, plhs, result, energy, bound, solution, altLabs>>
  /\ IF WrongArgCount(nrhs)
     THEN MexErr("Expected 3 inputs")
     ELSE pc' = "check_solver" /\ UNCHANGED <<err, out>>

\* lines 62-64: the solver name check.
CheckSolver ==
  /\ pc = "check_solver"
  /\ UNCHANGED <<prhs, i, j, calls, evaluated, plhs, result, energy, bound, solution, altLabs>>
  /\ IF UnknownSolver(solver)
     THEN MexErr("Unknown solver")
     ELSE pc' = "alloc" /\ UNCHANGED <<err, out>>

\* lines 67-90: the cost oracles, the output arrays and their binding to plhs.
BindOutputs ==
  /\ pc = "alloc"
  /\ plhs' = TRUE
  /\ pc' = "dispatch"
  /\ UNCHANGED <<prhs, i, j, calls, evaluated, result, energy, bound, solution, altLabs, err, out>>

\* lines 93, 138 and 193: the two solver tests, and the end of the function.
Dispatch ==
  /\ pc = "dispatch"
  /\ UNCHANGED <<prhs, i, j, calls, evaluated, plhs, result, energy, bound, solution, altLabs, err>>
  /\ IF SelectsMF(solver) THEN pc' = "mf_setup" /\ UNCHANGED out
     ELSE IF SelectsTRWS(solver) THEN pc' = "trws_init" /\ UNCHANGED out
     ELSE pc' = "done" /\ out' = ReturnSlots(plhs, result, energy, bound)

\* lines 96-119: the dense CRF and its unary and pairwise terms.
MFSetup ==
  /\ pc = "mf_setup"
  /\ calls' = calls \o DenseArgs(min_pairwise_cost)
  /\ pc' = "mf_map"
  /\ UNCHANGED <<prhs, i, j, evaluated, plhs, result, energy, bound, solution, altLabs, err, out>>

\* line 122: crf.map(iterations).  The backend returns a labeling that is a
\* function of its configuration: a call that differs only in
\* min_pairwise_cost gets the same labeling when it configures the backend
\* alike, and any labeling otherwise.
MFMap ==
  /\ pc = "mf_map"
  /\ calls' = Append(calls, Call("map", <<IterationBudget(iterations)>>))
  /\ UNCHANGED <<prhs, i, j, evaluated, plhs, result, energy, bound>>
  /\ \/ /\ \E lab \in BackendLabelings(numberOfLabels) :
             /\ solution' = <<lab>>
             /\ altLabs' = UNION { IF DenseArgs(t) = DenseArgs(min_pairwise_cost)
                                   THEN {lab} ELSE BackendLabelings(numberOfLabels)
                                   : t \in Thresholds }
        /\ pc' = "mf_energy"
        /\ UNCHANGED <<err, out>>
     \/ /\ UNCHANGED <<solution, altLabs>>
        /\ MexErr("backend")

\* lines 125-129: the labeling is copied into result, then crf.energy(map).
MFEnergy ==
  /\ pc = "mf_energy"
  /\ result' = solution
  /\ calls' = Append(calls, Call("energy", solution))
  /\ UNCHANGED <<prhs, i, j, evaluated, plhs, bound, solution, altLabs>>
  /\ \/ /\ energy' = <<Energy(solution[1])>>
        /\ pc' = "mf_bound"
        /\ UNCHANGED <<err, out>>
     \/ /\ UNCHANGED energy
        /\ MexErr("backend")

\* lines 130-135: the trivial lower bound, and the return.
MFBound ==
  /\ pc = "mf_bound"
  /\ bound' = <<MFBoundValue>>
  /\ pc' = "done"
  /\ out' = ReturnSlots(plhs, result, energy, bound')
  /\ UNCHANGED <<prhs, i, j, calls, evaluated, plhs, result, energy, solution, altLabs, err>>

\* lines 140-150: the TRWS options and the construction of the solver.
TRWSInit ==
  /\ pc = "trws_init"
  /\ calls' = Append(calls, Call("TRWS", <<numberOfLabels>>))
  /\ i' = 0
  /\ pc' = "trws_nodes"
  /\ UNCHANGED <<prhs, j, evaluated, plhs, result, energy, bound, solution, altLabs, err, out>>

\* lines 152-162: one pass of the node loop; after the last node the edge
\* loops start.
TRWSAddNode ==
  /\ pc = "trws_nodes"
  /\ i < numVariables
  /\ calls' = Append(calls, Call("AddNode", <<i, NodeData(i)>>))
  /\ UNCHANGED <<prhs, evaluated, plhs, result, energy, bound, solution, altLabs>>
  /\ \/ /\ i + 1 < numVariables
        /\ i' = i + 1
        /\ UNCHANGED <<j, pc, err, out>>
     \/ /\ i + 1 >= numVariables
        /\ IF FirstPair = <<>>
           THEN pc' = "trws_minimize" /\ UNCHANGED <<i, j>>
           ELSE pc' = "trws_edges" /\ i' = FirstPair[1] /\ j' = FirstPair[2]
        /\ UNCHANGED <<err, out>>
     \/ /\ UNCHANGED <<i, j>>
        /\ MexErr("backend")

\* lines 166-174: one pass of the inner edge loop for the pair (i, j).
TRWSEdge ==
  /\ pc = "trws_edges"
  /\ LET pcost == pairwiseCost(linear2sub(i), linear2sub(j))
         nxt == NextPair(i, j)
         Advance == /\ IF nxt = <<>>
                       THEN pc' = "trws_minimize" /\ UNCHANGED <<i, j>>
                       ELSE i' = nxt[1] /\ j' = nxt[2] /\ UNCHANGED pc
                    /\ UNCHANGED <<err, out>>
     IN  /\ evaluated' = evaluated \cup {<<i, j>>}
         /\ UNCHANGED <<prhs, plhs, result, energy, bound, solution, altLabs>>
         /\ \/ /\ IncludeEdge(pcost, min_pairwise_cost)
               /\ calls' = Append(calls, Call("AddEdge", <<i, j, pcost>>))
               /\ Advance
            \/ /\ ~IncludeEdge(pcost, min_pairwise_cost)
               /\ UNCHANGED calls
               /\ Advance
            \/ /\ IncludeEdge(pcost, min_pairwise_cost)
               /\ calls' = Append(calls, Call("AddEdge", <<i, j, pcost>>))
               /\ UNCHANGED <<i, j>>
               /\ MexErr("backend")

\* line 177: Minimize_TRW_S(options, TRWSlb, TRWSenergy).
TRWSMinimize ==
  /\ pc = "trws_minimize"
  /\ calls' = Append(calls, Call("Minimize_TRW_S", <<IterationBudget(iterations), PrintMinIter>>))
  /\ UNCHANGED <<prhs, i, j, evaluated, plhs, result, energy, bound, altLabs>>
  /\ \/ /\ \E lab \in BackendLabelings(numberOfLabels) :
             solution' = <<[labeling |-> lab, energy |-> SparseEnergy(lab),
                            lb |-> TRWSLowerBound(lab)]>>
        /\ pc' = "trws_read"
        /\ UNCHANGED <<err, out>>
     \/ /\ UNCHANGED solution
        /\ MexErr("backend")

\* lines 179-191: the solution, the energy and the bound are copied out, the
\* solver is released, and the call returns.
TRWSFinish ==
  /\ pc = "trws_read"
  /\ calls' = calls \o [k \in 1..numVariables |-> Call("GetSolution", <<k - 1>>)]
  /\ result' = <<solution[1].labeling>>
  /\ energy' = <<solution[1].energy>>
  /\ bound' = <<solution[1].lb>>
  /\ pc' = "done"
  /\ out' = ReturnSlots(plhs, result', energy', bound')
  /\ UNCHANGED <<prhs, i, j, evaluated, plhs, solution, altLabs, err>>

Next ==
  \/ ParseArgs
  \/ CheckSolver
  \/ BindOutputs
  \/ Dispatch
  \/ MFSetup
  \/ MFMap
  \/ MFEnergy
  \/ MFBound
  \/ TRWSInit
  \/ TRWSAddNode
  \/ TRWSEdge
  \/ TRWSMinimize
  \/ TRWSFinish

Spec == Init /\ [][Next]_vars

\* ------------------------------------------------------------------------
\* Vocabulary of the properties
\* ------------------------------------------------------------------------
Terminal == pc \in {"done", "error"}
Ops == {calls[k].op : k \in 1..Len(calls)}
DenseOps == {"extendedDenseCRF2D", "setUnaryEnergy", "addPairwiseGaussian",
             "addPairwiseBilateral", "map", "energy"}
TRWSOps == {"TRWS", "AddNode", "AddEdge", "Minimize_TRW_S", "GetSolution"}
SolveOps == {"map", "Minimize_TRW_S"}
CountOp(op) == Cardinality({k \in 1..Len(calls) : calls[k].op = op})
SolveCount == Cardinality({k \in 1..Len(calls) : calls[k].op \in SolveOps})
AllWritten == result # NoValue /\ energy # NoValue /\ bound # NoValue
NoneWritten == result = NoValue /\ energy = NoValue /\ bound = NoValue
AllPairs == {pr \in (0..(numVariables - 1)) \X (0..(numVariables - 1)) : pr[1] < pr[2]}
PairCost(pr) == pairwiseCost(linear2sub(pr[1]), linear2sub(pr[2]))
PhaseOf(op) ==
  CASE op = "TRWS" -> 0 [] op = "AddNode" -> 1 [] op = "AddEdge" -> 2
    [] op = "Minimize_TRW_S" -> 3 [] op = "GetSolution" -> 4 [] OTHER -> 5

\* ------------------------------------------------------------------------
\* C1
\* ------------------------------------------------------------------------
\* C1: a call (with the right argument count) whose solver string is not
\* exactly "MF" or "TRWS" never invokes a backend, never binds or delivers an
\* output, and can only end in the fatal error "Unknown solver".
C1_UnknownSolverIsFatal ==
  (nrhs = 4 /\ solver \notin {"MF", "TRWS"}) =>
      /\ calls = <<>>
      /\ ~plhs
      /\ out = NoOutput
      /\ NoneWritten
      /\ pc \in {"start", "check_solver", "error"}
      /\ (pc = "error" => err = "Unknown solver")

\* A lower-case solver name has ended in the error.
C1_Witness ==
  /\ pc = "error"
  /\ err = "Unknown solver"
  /\ solver = "mf"
  /\ calls = <<>>

C3_EdgeSetExact ==
  /\ evaluated \subseteq AllPairs
  /\ EdgeSet \subseteq AllPairs
  /\ \A k \in 1..Len(EdgeCalls) :
        EdgeCalls[k].args[3] = PairCost(<<EdgeCalls[k].args[1], EdgeCalls[k].args[2]>>)
  /\ ((pc = "trws_minimize" \/ "Minimize_TRW_S" \in Ops) =>
        /\ EdgeSet = {pr \in AllPairs : PairCost(pr) >= min_pairwise_cost}
        /\ Len(EdgeCalls) = Cardinality(EdgeSet)
        /\ evaluated = AllPairs)

\* The edge loops have finished on a 2 x 2 grid, keeping some pairs and
\* pruning others.
C3_Witness ==
  /\ pc = "trws_minimize"
  /\ M = 2
  /\ N = 2
  /\ EdgeSet # {}
  /\ EdgeSet # AllPairs

\* ------------------------------------------------------------------------
\* C4
\* ------------------------------------------------------------------------
\* C4: "MF" runs only the dense backend and "TRWS" only the tree-reweighted
\* one; at most one solve is ever started, a call that returns has performed
\* exactly one, and after the return no backend call or output write follows.
C4_DispatchOnce ==
  /\ [](/\ (solver = "MF" => Ops \subseteq DenseOps)
        /\ (solver = "TRWS" => Ops \subseteq TRWSOps)
        /\ (solver \notin {"MF", "TRWS"} => Ops = {})
        /\ SolveCount <= 1
        /\ (pc = "done" => (SolveCount = 1 /\ solver \in {"MF", "TRWS"}))
        /\ (pc \in {"mf_setup", "mf_map", "mf_energy", "mf_bound"} => solver = "MF")
        /\ (pc \in {"trws_init", "trws_nodes", "trws_edges", "trws_minimize", "trws_read"}
              => solver = "TRWS"))
  /\ [][pc = "done" => UNCHANGED <<pc, calls, result, energy, bound, out>>]_vars

\* An MF call has returned after its one solve.
C4_Witness ==
  /\ pc = "done"
  /\ solver = "MF"
  /\ SolveCount = 1
  /\ "map" \in Ops

\* ------------------------------------------------------------------------
\* C5
\* ------------------------------------------------------------------------
\* C5: a call with iterations <= 0 never starts a backend solve and never
\* returns; it can only end in a fatal error.
C5_NonPositiveIterationsFatal ==
  (nrhs = 4 /\ iterations <= 0) =>
      /\ SolveCount = 0
      /\ pc # "done"
      /\ out = NoOutput

\* ------------------------------------------------------------------------
\* C6
\* ------------------------------------------------------------------------
\* C6: a call whose unary table size is not a multiple of M*N never invokes
\* a backend and never returns; it can only end in a fatal error.
C6_NonDivisibleUnaryFatal ==
  (nrhs = 4 /\ UC % (M * N) # 0) =>
      /\ calls = <<>>
      /\ pc # "done"
      /\ out = NoOutput

\* ------------------------------------------------------------------------
\* C7
\* ------------------------------------------------------------------------
\* C7: for the call's image, grid and weights, raising min_pairwise_cost
\* never adds an edge: for thresholds t1 < t2 the edges added with t2 are a
\* subset of, and no more than, those added with t1; the edges the call has
\* added are those of its own threshold.
C7_ThresholdMonotone ==
  (pc = "trws_minimize") =>
      /\ EdgeSet = EdgesFor(min_pairwise_cost)
      /\ \A t1 \in Thresholds, t2 \in Thresholds :
            t1 < t2 =>
              /\ EdgesFor(t2) \subseteq EdgesFor(t1)
              /\ Cardinality(EdgesFor(t2)) <= Cardinality(EdgesFor(t1))

\* A grid on which each raise of the threshold strictly prunes edges.
C7_Witness ==
  /\ pc = "trws_minimize"
  /\ min_pairwise_cost = 300
  /\ EdgeSet # {}
  /\ EdgeSet # EdgesFor(0)
  /\ EdgesFor(5000) = {}

\* ------------------------------------------------------------------------
\* C8
\* ------------------------------------------------------------------------
\* C8: the bound reported on the MF path is at most the energy of every
\* labeling, whatever the unary table and the kernel weights.
C8_TrivialBoundBelowEveryEnergy ==
  (solver = "MF" /\ bound # NoValue) =>
      \A lab \in Labelings(numberOfLabels) : bound[1] <= Energy(lab)

\* ------------------------------------------------------------------------
\* C9
\* ------------------------------------------------------------------------
\* C9: on the MF path no pair is evaluated and no edge is added, the backend
\* is configured the same for every min_pairwise_cost, and the labeling,
\* energy and bound are those of the same call under any other
\* min_pairwise_cost.
C9_ThresholdIgnoredByMF ==
  (solver = "MF") =>
      /\ evaluated = {}
      /\ "AddEdge" \notin Ops
      /\ \A t \in Thresholds : DenseArgs(t) = DenseArgs(min_pairwise_cost)
      /\ (pc \in {"mf_energy", "mf_bound", "done"} => altLabs = {solution[1]})
      /\ (pc = "done" =>
            /\ \A lab \in altLabs :
                  /\ result = <<lab>>
                  /\ energy = <<Energy(lab)>>
            /\ bound = <<lowestUnaryCost(prhs.unary, M, N, numberOfLabels)>>
            /\ SubSeq(calls, 1, 4) = DenseArgs(min_pairwise_cost))

\* An MF call has returned under a threshold that would prune every edge.
C9_Witness ==
  /\ pc = "done"
  /\ solver = "MF"
  /\ min_pairwise_cost = 5000
  /\ prhs.gaussian_weight = 1
  /\ prhs.bilateral_weight = 1
  /\ numVariables = 4
  /\ altLabs = {result[1]}

\* ------------------------------------------------------------------------
\* C10
\* ------------------------------------------------------------------------
\* C10: on the TRWS path the backend calls come in the order constructor,
\* AddNode, AddEdge, Minimize_TRW_S, GetSolution; the k-th AddNode is variable
\* k-1; no pair is evaluated before all M*N nodes are added; Minimize_TRW_S is
\* invoked at most once (exactly once in a call that returns) and only after
\* all M*N*(M*N-1)/2 pairs are enumerated; the outputs are written only
\* after it has returned.
C10_TRWSCallOrder ==
  (solver = "TRWS") =>
      /\ \A k \in 1..(Len(calls) - 1) : PhaseOf(calls[k].op) <= PhaseOf(calls[k + 1].op)
      /\ \A k \in 1..Len(calls) :
            calls[k].op = "AddNode" => (k >= 2 /\ calls[k].args[1] = k - 2)
      /\ CountOp("AddNode") <= numVariables
      /\ (evaluated # {} => CountOp("AddNode") = numVariables)
      /\ CountOp("Minimize_TRW_S") <= 1
      /\ ("Minimize_TRW_S" \in Ops =>
            /\ CountOp("AddNode") = numVariables
            /\ Cardinality(evaluated) * 2 = numVariables * (numVariables - 1))
      /\ (~NoneWritten =>
            /\ "Minimize_TRW_S" \in Ops
            /\ solution # NoValue
            /\ AllWritten)
      /\ ("GetSolution" \in Ops => ~NoneWritten)
      /\ (pc = "done" =>
            /\ CountOp("Minimize_TRW_S") = 1
            /\ CountOp("GetSolution") = numVariables)

\* A TRWS call on four variables has returned: 4 nodes, 6 pairs, one solve.
C10_Witness ==
  /\ pc = "done"
  /\ solver = "TRWS"
  /\ numVariables = 4
  /\ CountOp("AddNode") = 4
  /\ Cardinality(evaluated) = 6
  /\ CountOp("Minimize_TRW_S") = 1
====
